---- MODULE Spec2Model ----
(***************************************************************************)
(* Model of process_excel_core (src/core_excel.py): the pipeline that      *)
(* reads the shipment and backlog sheets of a data workbook, keeps the     *)
(* rows of one region, merges them and writes them into fixed columns of   *)
(* the "NingboFahuo" sheet of a template workbook, which it then saves.    *)
(*                                                                         *)
(* Strings of the source are written in ASCII here:                        *)
(*   "ZhoushanQu"  the region literal of line 112 / 140                    *)
(*   "NingboFahuo" the target sheet name of lines 160-162                  *)
(*   "Fahuo"       the shipment marker of line 82                          *)
(*   "Zhiliu"      the backlog marker of line 83                           *)
(* A workbook file is a sequence of sheets, a sheet a sequence of rows, a  *)
(* row a function from the column numbers the program can touch to cells,  *)
(* a cell a value and a number format.  A formula is a value of the cell   *)
(* (as in openpyxl).  NaN, NaT and None are one value, Null.               *)
(***************************************************************************)
EXTENDS Integers, Sequences, FiniteSets, TLC

\* ------------------------------------------------------------------ bounds
\* Most data rows of a data workbook, its two sheets taken together.
MaxRows == 3
\* Most data rows of a data workbook in the runs that call twice.
MaxRowsTwice == 2
\* Largest max_row of the template's target sheet (header included).
MaxTplRow == 3

\* ------------------------------------------------------------------ values
Null == [k |-> "null", s |-> "", n |-> 0]
Str(x) == [k |-> "str", s |-> x, n |-> 0]
Num(x) == [k |-> "num", s |-> "", n |-> x]
\* A date-time: day number d, hour of day h (0..23), held as d * 100 + h.
DateTime(d, h) == [k |-> "datetime", s |-> "", n |-> d * 100 + h]
Date(d) == [k |-> "date", s |-> "", n |-> d]
Formula(x) == [k |-> "formula", s |-> x, n |-> 0]

notna(v) == v.k # "null"

\* pd.to_numeric(..., errors='coerce') on one value: a number stays, a string
\* that spells a number becomes it, anything else becomes NaN.  Numbers are
\* held in tenths.
to_numeric(v) ==
    CASE v.k = "num" -> v
      [] v.k = "str" /\ v.s = "10.5" -> Num(105)
      [] v.k = "str" /\ v.s = "3" -> Num(30)
      [] OTHER -> Null

\* pd.to_datetime(..., errors='coerce') on one value: a date-time stays, a
\* string that spells one becomes it, any other string and an empty cell
\* become NaT (the signoff column of the inputs holds nothing else).
to_datetime(v) ==
    CASE v.k = "datetime" -> v
      [] v.k = "date" -> DateTime(v.n, 0)
      [] v.k = "str" /\ v.s = "2024-01-02 08:00:00" -> DateTime(20240102, 8)
      [] OTHER -> Null

\* .dt.date on a valid timestamp: the time of day is dropped.
dt_date(v) == Date(v.n \div 100)

\* process_date_column on one value.
process_date_value(v) ==
    LET t == to_datetime(v)
    IN  IF notna(t) THEN dt_date(t) ELSE Null

\* ------------------------------------------------------------------ sheets
\* The 1-indexed columns a run can read or write, one column outside them
\* all (1) and one formula column of the template (46).
Cols == {1, 4, 6, 8, 15, 16, 19, 21, 22, 24, 25, 26, 27, 28, 29, 31, 34,
         43, 44, 45, 46, 56}

Cell(v, f) == [v |-> v, fmt |-> f]
BlankCell == Cell(Null, "General")
BlankRow == [c \in Cols |-> BlankCell]

\* A row that holds the given cells and is blank elsewhere; cells is a
\* function from some columns to cells.
RowOf(cells) == [c \in Cols |-> IF c \in DOMAIN cells THEN cells[c] ELSE BlankCell]

Sheet(name, ncols, rows) == [name |-> name, ncols |-> ncols, rows |-> rows]

\* ws.max_row
max_row(ws) == Len(ws.rows)

\* The cell at (r, c), blank where the sheet holds none.
CellAt(ws, r, c) == IF r \in 1..Len(ws.rows) THEN ws.rows[r][c] ELSE BlankCell

Max(a, b) == IF a >= b THEN a ELSE b

\* ws.cell(row=r, column=c): the sheet grown to hold that cell.
Touch(ws, r, c) ==
    [ws EXCEPT !.rows = IF r <= Len(@) THEN @
                        ELSE @ \o [i \in 1..(r - Len(@)) |-> BlankRow],
               !.ncols = Max(@, c)]

\* ws.cell(row=r, column=c).value = v
SetValue(ws, r, c, v) == [Touch(ws, r, c) EXCEPT !.rows[r][c].v = v]

\* ws.cell(row=r, column=c).number_format = f
SetFormat(ws, r, c, f) == [Touch(ws, r, c) EXCEPT !.rows[r][c].fmt = f]

\* ------------------------------------------------------------------ files
Absent == [kind |-> "absent", sheets |-> <<>>]
Corrupt == [kind |-> "corrupt", sheets |-> <<>>]
Xlsx(sheets) == [kind |-> "xlsx", sheets |-> sheets]

\* "marker in name" for the sheet names of the inputs.
Contains(name, marker) ==
    \/ marker = "Fahuo" /\ name \in {"FahuoMingxi", "NingboFahuo"}
    \/ marker = "Zhiliu" /\ name \in {"ZhiliuMingxi", "ZhiliuBeizhu"}

\* [name for name in xl.sheet_names if marker in name], as indices.
Matches(sheets, marker) == {i \in 1..Len(sheets) : Contains(sheets[i].name, marker)}

Min(S) == CHOOSE m \in S : \A o \in S : m <= o

\* ...[0]: the first match in workbook order (IndexError when there is none).
FirstMatch(sheets, marker) == sheets[Min(Matches(sheets, marker))].name

\* The sheet of that name (pd.read_excel(sheet_name=...), wb[...]).
SheetIndex(sheets, name) == Min({i \in 1..Len(sheets) : sheets[i].name = name})
SheetNames(sheets) == {sheets[i].name : i \in 1..Len(sheets)}

\* ------------------------------------------------------- column extractor
\* The positional (0-indexed) source columns of the shipment sheet.
ship_cols ==
    [region |-> 3, customer |-> 7, item_description |-> 15,
     ship_quantity |-> 21, net_weight |-> 24, list_price |-> 26,
     tax_rate |-> 43, signoff_date |-> 28]

\* The positional (0-indexed) source columns of the backlog sheet; its
\* signoff column is not read from the sheet.
delay_cols ==
    [region |-> 3, customer |-> 5, item_description |-> 18,
     ship_quantity |-> 27, net_weight |-> 30, list_price |-> 33,
     tax_rate |-> 55, organization_check |-> 26]

\* The eight columns of the processed frames, the fields of a merged row.
Fields == {"region", "customer", "item_description", "ship_quantity",
           "net_weight", "list_price", "tax_rate", "signoff_date"}

numeric_cols == {"ship_quantity", "net_weight", "list_price", "tax_rate"}

\* pd.read_excel: the first row is the header, the others are the data rows.
NumDataRows(ws) == IF Len(ws.rows) = 0 THEN 0 ELSE Len(ws.rows) - 1

\* What pandas reads from a cell: a formula is read as its cached result,
\* which a workbook written by openpyxl does not hold.
ReadValue(v) == IF v.k = "formula" THEN Null ELSE v

\* df.iloc[:, j] at data row i.
iloc(ws, i, j) == ReadValue(ws.rows[i + 1][j + 1].v)

\* df.iloc[:, j] raises IndexError for a frame of at most j columns.
InBounds(ws, cols) == \A f \in DOMAIN cols : cols[f] < ws.ncols

\* pd.DataFrame(ship_cols): one record per data row, in sheet order.  src
\* and idx record where the row comes from (the frame's index).
ShipFrame(ws) ==
    [i \in 1..NumDataRows(ws) |->
        [region |-> iloc(ws, i, ship_cols.region),
         customer |-> iloc(ws, i, ship_cols.customer),
         item_description |-> iloc(ws, i, ship_cols.item_description),
         ship_quantity |-> iloc(ws, i, ship_cols.ship_quantity),
         net_weight |-> iloc(ws, i, ship_cols.net_weight),
         list_price |-> iloc(ws, i, ship_cols.list_price),
         tax_rate |-> iloc(ws, i, ship_cols.tax_rate),
         signoff_date |-> iloc(ws, i, ship_cols.signoff_date),
         src |-> "ship", idx |-> i]]

\* pd.DataFrame(delay_cols): the signoff column starts empty.
DelayFrame(ws) ==
    [i \in 1..NumDataRows(ws) |->
        [region |-> iloc(ws, i, delay_cols.region),
         customer |-> iloc(ws, i, delay_cols.customer),
         item_description |-> iloc(ws, i, delay_cols.item_description),
         ship_quantity |-> iloc(ws, i, delay_cols.ship_quantity),
         net_weight |-> iloc(ws, i, delay_cols.net_weight),
         list_price |-> iloc(ws, i, delay_cols.list_price),
         tax_rate |-> iloc(ws, i, delay_cols.tax_rate),
         organization_check |-> iloc(ws, i, delay_cols.organization_check),
         signoff_date |-> Null,
         src |-> "delay", idx |-> i]]

\* convert_numeric_columns(df, numeric_cols)
convert_numeric_columns(df) ==
    [i \in DOMAIN df |->
        [f \in DOMAIN df[i] |->
            IF f \in numeric_cols THEN to_numeric(df[i][f]) ELSE df[i][f]]]

\* process_date_column(df, signoff column)
process_date_column(df) ==
    [i \in DOMAIN df |->
        [df[i] EXCEPT !.signoff_date = process_date_value(@)]]

\* df[signoff column] = None
ClearSignoff(df) == [i \in DOMAIN df |-> [df[i] EXCEPT !.signoff_date = Null]]

\* ------------------------------------------------------------ region filter
TargetRegion == "ZhoushanQu"

\* df['region'] == target
ShipKeep(r) == r.region = Str(TargetRegion)

\* DelayKeep without the comparison with the empty string of line 142.
DelayKeepWithoutEmptyCheck(r) ==
    /\ r.region = Str(TargetRegion)
    /\ notna(r.organization_check)

\* (df['region'] == target) & df['organization'].notna() & (df['organization'] != '')
DelayKeep(r) ==
    /\ r.region = Str(TargetRegion)
    /\ notna(r.organization_check)
    /\ r.organization_check # Str("")

\* .drop(organization column, axis=1)
DropOrganization(df) ==
    [i \in DOMAIN df |-> [f \in (DOMAIN df[i]) \ {"organization_check"} |-> df[i][f]]]

\* Lines 89-112: the shipment rows kept.
ShipZhoushan(ws) ==
    SelectSeq(process_date_column(convert_numeric_columns(ShipFrame(ws))), ShipKeep)

\* DelayZhoushan with the backlog sheet put through the shipment sheet's
\* steps: the signoff column read at the shipment sheet's position and
\* normalised as a date instead of being set to None.
DelayZhoushanLikeShip(ws) ==
    DropOrganization(
        SelectSeq(
            process_date_column(convert_numeric_columns(
                [i \in 1..NumDataRows(ws) |->
                    [DelayFrame(ws)[i] EXCEPT
                        !.signoff_date = iloc(ws, i, ship_cols.signoff_date)]])),
            DelayKeep))

\* Lines 117-144: the backlog rows kept.
DelayZhoushan(ws) ==
    DropOrganization(
        SelectSeq(ClearSignoff(convert_numeric_columns(DelayFrame(ws))), DelayKeep))

\* ------------------------------------------------------------------ merger
AllNull(r) == \A f \in Fields : ~notna(r[f])
NotAllNull(r) == ~AllNull(r)

\* df.dropna(how='all')
dropna_all(df) == SelectSeq(df, NotAllNull)

\* Combine with the two frames concatenated in the other order.
CombineDelayFirst(ship, delay) == dropna_all(delay \o ship)

\* pd.concat([ship, delay], ignore_index=True).dropna(how='all')
Combine(ship, delay) == dropna_all(ship \o delay)

\* --------------------------------------------------------- template writer
TargetSheet == "NingboFahuo"
clean_columns == <<4, 8, 15, 21, 24, 26, 43, 45>>
start_row == 2

\* for col in clean_columns: ws.cell(row=row, column=col).value = None
RECURSIVE ClearRow(_, _, _)
ClearRow(ws, row, j) ==
    IF j > Len(clean_columns) THEN ws
    ELSE ClearRow(SetValue(ws, row, clean_columns[j], Null), row, j + 1)

\* for row in range(first, last + 1): ...
RECURSIVE ClearRows(_, _, _)
ClearRows(ws, row, last) ==
    IF row > last THEN ws
    ELSE ClearRows(ClearRow(ws, row, 1), row + 1, last)

\* CleanSheet with the loop begun at the header row.
CleanSheetFromHeader(ws) == ClearRows(ws, 1, max_row(ws))

\* CleanSheet with range(2, max_row): the last row is left as it was.
CleanSheetButLast(ws) == ClearRows(ws, 2, max_row(ws) - 1)

\* Lines 166-171.
CleanSheet(ws) == ClearRows(ws, 2, max_row(ws))

\* FillRow with the format of column 21 pasted for column 24.
FillRowFormatPasted(ws, current_row, row) ==
    LET w1 == SetValue(ws, current_row, 4, row.region)
        w2 == SetValue(w1, current_row, 8, row.customer)
        w3 == SetValue(w2, current_row, 15, row.item_description)
        w4 == SetFormat(SetValue(w3, current_row, 21, row.ship_quantity),
                        current_row, 21, "0.00")
        w5 == SetFormat(SetValue(w4, current_row, 24, row.net_weight),
                        current_row, 24, "0.00")
        w6 == SetFormat(SetValue(w5, current_row, 26, row.list_price),
                        current_row, 26, "0.00")
        w7 == SetFormat(SetValue(w6, current_row, 43, row.tax_rate),
                        current_row, 43, "0.00%")
    IN  SetFormat(SetValue(w7, current_row, 45, row.signoff_date),
                  current_row, 45, "yyyy/mm/dd")

\* Lines 177-198: one merged row written to spreadsheet row current_row.
FillRow(ws, current_row, row) ==
    LET w1 == SetValue(ws, current_row, 4, row.region)
        w2 == SetValue(w1, current_row, 8, row.customer)
        w3 == SetValue(w2, current_row, 15, row.item_description)
        w4 == SetFormat(SetValue(w3, current_row, 21, row.ship_quantity),
                        current_row, 21, "0.00")
        w5 == SetFormat(SetValue(w4, current_row, 24, row.net_weight),
                        current_row, 24, "0.000")
        w6 == SetFormat(SetValue(w5, current_row, 26, row.list_price),
                        current_row, 26, "0.00")
        w7 == SetFormat(SetValue(w6, current_row, 43, row.tax_rate),
                        current_row, 43, "0.00%")
    IN  SetFormat(SetValue(w7, current_row, 45, row.signoff_date),
                  current_row, 45, "yyyy/mm/dd")

\* current_row = start_row + idx
CurrentRow(idx) == start_row + idx

\* for idx, (_, row) in enumerate(df_combined.iterrows()): ...
RECURSIVE FillRows(_, _, _)
FillRows(ws, df, idx) ==
    IF idx >= Len(df) THEN ws
    ELSE FillRows(FillRow(ws, CurrentRow(idx), df[idx + 1]), df, idx + 1)

\* FillSheet with the rows appended below the sheet's last row instead of
\* written from start_row.
RECURSIVE AppendRows(_, _, _, _)
AppendRows(ws, df, idx, base) ==
    IF idx >= Len(df) THEN ws
    ELSE AppendRows(FillRow(ws, base + idx, df[idx + 1]), df, idx + 1, base)

FillSheetAppend(ws, df) == AppendRows(ws, df, 0, max_row(ws) + 1)

\* Lines 175-198.
FillSheet(ws, df) == FillRows(ws, df, 0)

\* ------------------------------------------------------------------ inputs
\* Rows of a shipment sheet (1-indexed columns 4, 8, 16, 22, 25, 27, 44, 29).
ShipRow(region, customer, qty, tax, signoff) ==
    RowOf([c \in {4, 8, 16, 22, 25, 27, 44, 29} |->
        CASE c = 4 -> Cell(region, "General")
          [] c = 8 -> Cell(customer, "General")
          [] c = 16 -> Cell(Str("item"), "General")
          [] c = 22 -> Cell(qty, "General")
          [] c = 25 -> Cell(Num(12), "General")
          [] c = 27 -> Cell(Num(1000), "General")
          [] c = 44 -> Cell(tax, "General")
          [] OTHER -> Cell(signoff, "General")])

ShipRows ==
    { ShipRow(Str(TargetRegion), Str("A"), Str("10.5"), Str("abc"), DateTime(20240102, 8)),
      ShipRow(Str("NingboQu"), Str("B"), Str("3"), Num(1), Str("2024-01-02 08:00:00")),
      BlankRow }

\* Rows of a backlog sheet (1-indexed columns 4, 6, 19, 28, 31, 34, 56, 27);
\* column 29 holds a date-time the program does not read.
DelayRow(region, customer, org) ==
    RowOf([c \in {4, 6, 19, 28, 31, 34, 56, 27, 29} |->
        CASE c = 4 -> Cell(region, "General")
          [] c = 6 -> Cell(customer, "General")
          [] c = 19 -> Cell(Str("item"), "General")
          [] c = 28 -> Cell(Str("3"), "General")
          [] c = 31 -> Cell(Num(7), "General")
          [] c = 34 -> Cell(Num(500), "General")
          [] c = 56 -> Cell(Num(1), "General")
          [] c = 27 -> Cell(org, "General")
          [] OTHER -> Cell(DateTime(20240305, 9), "General")])

DelayRows ==
    { DelayRow(Str(TargetRegion), Str("D"), Str("ORG1")),
      DelayRow(Str(TargetRegion), Str("E"), Str("")),
      DelayRow(Str(TargetRegion), Str("F"), Null),
      DelayRow(Str("NingboQu"), Str("G"), Str("ORG1")) }

SeqsUpTo(S, n) == UNION {[1..k -> S] : k \in 0..n}

HeaderRow == RowOf([c \in {4} |-> Cell(Str("header"), "General")])

ShipSheet(rows) == Sheet("FahuoMingxi", 45, <<HeaderRow>> \o rows)
DelaySheet(rows) == Sheet("ZhiliuMingxi", 57, <<HeaderRow>> \o rows)
OtherSheet == Sheet("Huizong", 1, <<RowOf([c \in {1} |-> Cell(Formula("=SUM(NingboFahuo!U:U)"), "0.0")])>>)

\* The data files of the inputs: every shipment and backlog sheet within
\* the bounds, a workbook without a shipment sheet, one without a backlog
\* sheet, one whose shipment sheet is too narrow, a missing file and an
\* unreadable one.
DataFiles(n) ==
    UNION {{Xlsx(<<ShipSheet(s), DelaySheet(d)>>) :
                s \in [1..k -> ShipRows], d \in SeqsUpTo(DelayRows, n - k)} :
            k \in 0..n}
    \cup {Xlsx(<<OtherSheet, DelaySheet(<<>>)>>),
          Xlsx(<<ShipSheet(<<>>), OtherSheet>>),
          Xlsx(<<Sheet("FahuoMingxi", 30, <<HeaderRow>>), DelaySheet(<<>>)>>),
          Absent, Corrupt}

\* A row of the template's target sheet left from an earlier month: stale
\* values in the data columns, each with a format of the template's own, a
\* label in column 1 and a formula in column 46.
StaleRow ==
    RowOf([c \in {1, 4, 8, 15, 21, 24, 26, 43, 45, 46} |->
        CASE c = 1 -> Cell(Str("keep"), "@")
          [] c = 4 -> Cell(Str("NingboQu"), "@")
          [] c = 8 -> Cell(Str("old"), "@")
          [] c = 15 -> Cell(Str("old item"), "General")
          [] c = 21 -> Cell(Num(99), "0.0")
          [] c = 24 -> Cell(Num(99), "General")
          [] c = 26 -> Cell(Formula("=U2*2"), "#,##0")
          [] c = 43 -> Cell(Num(13), "0%")
          [] c = 45 -> Cell(DateTime(20230101, 7), "m/d/yy")
          [] OTHER -> Cell(Formula("=U2*Z2"), "0.0")])

TplHeader ==
    RowOf([c \in {1, 4, 21, 45} |->
        CASE c = 1 -> Cell(Str("no"), "@")
          [] c = 4 -> Cell(Str("region"), "@")
          [] c = 21 -> Cell(Str("quantity"), "@")
          [] OTHER -> Cell(Str("signoff"), "@")])

\* The target sheet with r rows: the header and r - 1 stale rows.
TplSheet(r) == Sheet(TargetSheet, 46, <<TplHeader>> \o [i \in 1..(r - 1) |-> StaleRow])

\* A sheet of notes on the backlog, which some templates carry.
NoteSheet ==
    Sheet("ZhiliuBeizhu", 57, <<HeaderRow, DelayRow(Str(TargetRegion), Str("N"), Str("ORG2"))>>)

\* The template files of the inputs: the target sheet of every size within
\* the bound beside another sheet, one that also carries the notes sheet, a
\* workbook without the target sheet, a missing file and an unreadable one.
TemplateFiles ==
    {Xlsx(<<OtherSheet, TplSheet(r)>>) : r \in 1..MaxTplRow}
    \cup {Xlsx(<<OtherSheet, TplSheet(MaxTplRow), NoteSheet>>),
          Xlsx(<<OtherSheet>>), Absent, Corrupt}

\* What save_path may hold before the call: nothing, or an older result.
OldFiles == {Absent, Xlsx(<<TplSheet(1)>>)}

\* ------------------------------------------------------------------- state
template_path == "pT"
data_path == "pD"
Paths == {"pT", "pD", "pO"}

VARIABLES
    fs,                 \* the file system: path -> file
    fs0,                \* the files as they were before the first call
    save_path,          \* the save_path argument
    sink,               \* "default": log_callback is None (print);
                        \* "custom": a callback of the caller, which may raise
    disk,               \* "ok"; "readonly": save_path cannot be written;
                        \* "faulty": a write may fail, also part-way
    pc,                 \* where the call is
    run,                \* 1 for the first call, 2 for the second
    ship_sheet_name, delay_sheet_name,
    df_ship_zhoushan, df_delay_zhoushan, df_combined,
    wb,                 \* the workbook loaded from the template
    exc,                \* the exception being handled
    result,             \* the pair returned
    saved,              \* wb.save returned in this call
    first               \* the first call's outcome, once a second has begun

vars == <<fs, fs0, save_path, sink, disk, pc, run, ship_sheet_name,
          delay_sheet_name, df_ship_zhoushan, df_delay_zhoushan, df_combined,
          wb, exc, result, saved, first>>

NoWb == [kind |-> "none", sheets |-> <<>>]
NoResult == [ok |-> FALSE, msg |-> ""]
NoFirst == [pc |-> "", result |-> NoResult, out |-> Absent]

\* The locals of a call that has just begun.
Entry ==
    /\ pc = "check"
    /\ ship_sheet_name = ""
    /\ delay_sheet_name = ""
    /\ df_ship_zhoushan = <<>>
    /\ df_delay_zhoushan = <<>>
    /\ df_combined = <<>>
    /\ wb = NoWb
    /\ exc = ""
    /\ result = NoResult
    /\ saved = FALSE

\* One call, with a callback of the caller's and a disk that may fail.
Init ==
    /\ \E t \in TemplateFiles, d \in DataFiles(MaxRows), o \in OldFiles :
          fs = [p \in Paths |-> IF p = "pT" THEN t ELSE IF p = "pD" THEN d ELSE o]
    /\ fs0 = fs
    /\ save_path = "pO"
    /\ sink = "custom"
    /\ disk = "faulty"
    /\ run = 1
    /\ first = NoFirst
    /\ Entry

\* ----------------------------------------------------------------- actions
\* Whether a call of log_callback raises: print does not, a callback of the
\* caller's may.
SinkRaises == IF sink = "custom" THEN {TRUE, FALSE} ELSE {FALSE}

\* What wb.save(save_path) may do: "ok" writes the file, "denied" raises
\* with the file untouched, "partial" raises with the file truncated.
SaveOutcomes ==
    CASE disk = "ok" -> {"ok"}
      [] disk = "readonly" -> {"denied"}
      [] OTHER -> {"ok", "denied", "partial"}

\* raise ... inside the try block: control goes to the except clause.
Raise(e) == pc' = "handler" /\ exc' = e

\* The exception of lines 73-76, "" when both files exist.
MissingFile ==
    IF fs[template_path].kind = "absent" THEN "TemplateNotFound"
    ELSE IF fs[data_path].kind = "absent" THEN "DataNotFound"
    ELSE ""

\* Lines 71-78: the existence checks and the first log message.
CheckFiles ==
    /\ pc = "check"
    /\ \E raises \in SinkRaises :
          IF MissingFile # "" THEN Raise(MissingFile)
          ELSE IF raises THEN Raise("SinkError")
          ELSE pc' = "locate" /\ exc' = exc
    /\ UNCHANGED <<fs, fs0, save_path, sink, disk, run, ship_sheet_name,
                   delay_sheet_name, df_ship_zhoushan, df_delay_zhoushan,
                   df_combined, wb, result, saved, first>>

\* The exception of lines 81-83, "" when the file opens and both markers
\* match a sheet.
LocateError(f) ==
    IF f.kind # "xlsx" THEN "BadZipFile"
    ELSE IF Matches(f.sheets, "Fahuo") = {} THEN "IndexError"
    ELSE IF Matches(f.sheets, "Zhiliu") = {} THEN "IndexError"
    ELSE ""

\* Lines 81-88: the sheet locator.
LocateSheets ==
    /\ pc = "locate"
    /\ LET f == fs[data_path]
       IN  \E raises \in SinkRaises :
              IF LocateError(f) # "" THEN
                  Raise(LocateError(f)) /\ UNCHANGED <<ship_sheet_name, delay_sheet_name>>
              ELSE IF raises THEN
                  Raise("SinkError") /\ UNCHANGED <<ship_sheet_name, delay_sheet_name>>
              ELSE
                  /\ ship_sheet_name' = FirstMatch(f.sheets, "Fahuo")
                  /\ delay_sheet_name' = FirstMatch(f.sheets, "Zhiliu")
                  /\ pc' = "ship"
                  /\ exc' = exc
    /\ UNCHANGED <<fs, fs0, save_path, sink, disk, run, df_ship_zhoushan,
                   df_delay_zhoushan, df_combined, wb, result, saved, first>>

\* pd.read_excel(data_path, sheet_name=name)
ReadSheet(name) ==
    LET f == fs[data_path] IN f.sheets[SheetIndex(f.sheets, name)]

\* Lines 88-113: the shipment sheet read, extracted, normalised, filtered.
ExtractShip ==
    /\ pc = "ship"
    /\ LET ws == ReadSheet(ship_sheet_name)
       IN  \E raises \in SinkRaises :
              IF ~InBounds(ws, ship_cols) THEN
                  Raise("IndexError") /\ UNCHANGED df_ship_zhoushan
              ELSE IF raises THEN
                  Raise("SinkError") /\ UNCHANGED df_ship_zhoushan
              ELSE
                  /\ df_ship_zhoushan' = ShipZhoushan(ws)
                  /\ pc' = "delay"
                  /\ exc' = exc
    /\ UNCHANGED <<fs, fs0, save_path, sink, disk, run, ship_sheet_name,
                   delay_sheet_name, df_delay_zhoushan, df_combined, wb,
                   result, saved, first>>

\* Lines 116-145: the backlog sheet read, extracted, normalised, filtered.
ExtractDelay ==
    /\ pc = "delay"
    /\ LET ws == ReadSheet(delay_sheet_name)
       IN  \E raises \in SinkRaises :
              IF ~InBounds(ws, delay_cols) THEN
                  Raise("IndexError") /\ UNCHANGED df_delay_zhoushan
              ELSE IF raises THEN
                  Raise("SinkError") /\ UNCHANGED df_delay_zhoushan
              ELSE
                  /\ df_delay_zhoushan' = DelayZhoushan(ws)
                  /\ pc' = "merge"
                  /\ exc' = exc
    /\ UNCHANGED <<fs, fs0, save_path, sink, disk, run, ship_sheet_name,
                   delay_sheet_name, df_ship_zhoushan, df_combined, wb,
                   result, saved, first>>

\* Lines 148-155: the merge, and the early return when nothing is left.
Merge ==
    /\ pc = "merge"
    /\ LET df == Combine(df_ship_zhoushan, df_delay_zhoushan)
       IN  \E raises \in SinkRaises :
              IF raises THEN
                  Raise("SinkError") /\ UNCHANGED <<df_combined, result>>
              ELSE IF Len(df) = 0 THEN
                  /\ result' = [ok |-> FALSE, msg |-> "NoValidData"]
                  /\ pc' = "done"
                  /\ UNCHANGED <<df_combined, exc>>
              ELSE
                  /\ df_combined' = df
                  /\ pc' = "load"
                  /\ UNCHANGED <<result, exc>>
    /\ UNCHANGED <<fs, fs0, save_path, sink, disk, run, ship_sheet_name,
                   delay_sheet_name, df_ship_zhoushan, df_delay_zhoushan, wb,
                   saved, first>>

\* The message of the KeyError of line 161, which names the target sheet.
MissingSheetError == "MissingSheet:NingboFahuo"

\* TemplateError with a KeyError whose message does not name the sheet.
TemplateErrorUnnamed(f) ==
    IF f.kind # "xlsx" THEN "BadZipFile"
    ELSE IF TargetSheet \notin SheetNames(f.sheets) THEN "KeyError"
    ELSE ""

\* The exception of lines 159-161, "" when the template loads and holds the
\* target sheet.
TemplateError(f) ==
    IF f.kind # "xlsx" THEN "BadZipFile"
    ELSE IF TargetSheet \notin SheetNames(f.sheets) THEN MissingSheetError
    ELSE ""

\* Lines 158-162: the template loaded and its target sheet looked up.
LoadTemplate ==
    /\ pc = "load"
    /\ LET f == fs[template_path]
       IN  \E raises \in SinkRaises :
              IF raises THEN Raise("SinkError") /\ UNCHANGED wb
              ELSE IF TemplateError(f) # "" THEN Raise(TemplateError(f)) /\ UNCHANGED wb
              ELSE wb' = f /\ pc' = "clean" /\ exc' = exc
    /\ UNCHANGED <<fs, fs0, save_path, sink, disk, run, ship_sheet_name,
                   delay_sheet_name, df_ship_zhoushan, df_delay_zhoushan,
                   df_combined, result, saved, first>>

\* ws = wb[TargetSheet], as an index into the workbook's sheets.
TargetIndex(w) == SheetIndex(w.sheets, TargetSheet)

\* Lines 165-171: the eight columns blanked from row 2 to max_row.
CleanTemplate ==
    /\ pc = "clean"
    /\ \E raises \in SinkRaises :
          IF raises THEN Raise("SinkError") /\ UNCHANGED wb
          ELSE /\ wb' = [wb EXCEPT !.sheets[TargetIndex(wb)] = CleanSheet(@)]
               /\ pc' = "fill"
               /\ exc' = exc
    /\ UNCHANGED <<fs, fs0, save_path, sink, disk, run, ship_sheet_name,
                   delay_sheet_name, df_ship_zhoushan, df_delay_zhoushan,
                   df_combined, result, saved, first>>

\* Lines 174-198: the merged rows written from start_row on.
FillTemplate ==
    /\ pc = "fill"
    /\ \E raises \in SinkRaises :
          IF raises THEN Raise("SinkError") /\ UNCHANGED wb
          ELSE /\ wb' = [wb EXCEPT !.sheets[TargetIndex(wb)] = FillSheet(@, df_combined)]
               /\ pc' = "save"
               /\ exc' = exc
    /\ UNCHANGED <<fs, fs0, save_path, sink, disk, run, ship_sheet_name,
                   delay_sheet_name, df_ship_zhoushan, df_delay_zhoushan,
                   df_combined, result, saved, first>>

\* Lines 201-202: wb.save(save_path); wb.close().
SaveWorkbook ==
    /\ pc = "save"
    /\ \E outcome \in SaveOutcomes :
          CASE outcome = "ok" ->
                  /\ fs' = [fs EXCEPT ![save_path] = wb]
                  /\ saved' = TRUE
                  /\ pc' = "finish"
                  /\ exc' = exc
            [] outcome = "denied" ->
                  /\ Raise("SaveError")
                  /\ UNCHANGED <<fs, saved>>
            [] OTHER ->
                  /\ fs' = [fs EXCEPT ![save_path] = Corrupt]
                  /\ Raise("SaveError")
                  /\ UNCHANGED saved
    /\ UNCHANGED <<fs0, save_path, sink, disk, run, ship_sheet_name,
                   delay_sheet_name, df_ship_zhoushan, df_delay_zhoushan,
                   df_combined, wb, result, first>>

\* Lines 204-205: the closing log message and the successful return.
Finish ==
    /\ pc = "finish"
    /\ \E raises \in SinkRaises :
          IF raises THEN Raise("SinkError") /\ UNCHANGED result
          ELSE /\ result' = [ok |-> TRUE, msg |-> "None"]
               /\ pc' = "done"
               /\ exc' = exc
    /\ UNCHANGED <<fs, fs0, save_path, sink, disk, run, ship_sheet_name,
                   delay_sheet_name, df_ship_zhoushan, df_delay_zhoushan,
                   df_combined, wb, saved, first>>

\* Lines 207-210: the except clause logs the message and returns it; an
\* exception raised by that log call leaves the function.
Handler ==
    /\ pc = "handler"
    /\ \E raises \in SinkRaises :
          IF raises THEN pc' = "raised" /\ UNCHANGED result
          ELSE result' = [ok |-> FALSE, msg |-> exc] /\ pc' = "done"
    /\ UNCHANGED <<fs, fs0, save_path, sink, disk, run, ship_sheet_name,
                   delay_sheet_name, df_ship_zhoushan, df_delay_zhoushan,
                   df_combined, wb, exc, saved, first>>

Next ==
    \/ CheckFiles
    \/ LocateSheets
    \/ ExtractShip
    \/ ExtractDelay
    \/ Merge
    \/ LoadTemplate
    \/ CleanTemplate
    \/ FillTemplate
    \/ SaveWorkbook
    \/ Finish
    \/ Handler

Spec == Init /\ [][Next]_vars

\* ---------------------------------------------------------- a second call
\* Two calls in succession with the same arguments, the default log sink
\* and a disk that behaves the same way both times; save_path may name a
\* file of its own, the template or the data file.
InitTwice ==
    /\ \E t \in TemplateFiles, d \in DataFiles(MaxRowsTwice) :
          fs = [p \in Paths |-> IF p = "pT" THEN t ELSE IF p = "pD" THEN d ELSE Absent]
    /\ fs0 = fs
    /\ save_path \in Paths
    /\ sink = "default"
    /\ disk \in {"ok", "readonly"}
    /\ run = 1
    /\ first = NoFirst
    /\ Entry

\* The caller calls process_excel_core again with the same arguments.
Rerun ==
    /\ pc \in {"done", "raised"}
    /\ run = 1
    /\ run' = 2
    /\ first' = [pc |-> pc, result |-> result, out |-> fs[save_path]]
    /\ pc' = "check"
    /\ ship_sheet_name' = ""
    /\ delay_sheet_name' = ""
    /\ df_ship_zhoushan' = <<>>
    /\ df_delay_zhoushan' = <<>>
    /\ df_combined' = <<>>
    /\ wb' = NoWb
    /\ exc' = ""
    /\ result' = NoResult
    /\ saved' = FALSE
    /\ UNCHANGED <<fs, fs0, save_path, sink, disk>>

NextTwice == Next \/ Rerun

SpecTwice == InitTwice /\ [][NextTwice]_vars

\* -------------------------------------------------------------- properties
\* The call has returned (True, None).
Succeeded == pc = "done" /\ result.ok

\* The merge of lines 149-150 has run in this call and df_combined holds it.
MergeRan ==
    \/ pc \in {"load", "clean", "fill", "save", "finish"}
    \/ pc = "done" /\ (result.ok \/ result.msg = "NoValidData")

\* The template and the data file as the caller passed them.
Template == fs0[template_path]
DataFile == fs0[data_path]

\* The sheets of the data file the locator picks.
SourceShip == DataFile.sheets[Min(Matches(DataFile.sheets, "Fahuo"))]
SourceDelay == DataFile.sheets[Min(Matches(DataFile.sheets, "Zhiliu"))]

\* The target sheet of the template, and of the workbook at save_path.
TemplateTarget == Template.sheets[TargetIndex(Template)]
OutputTarget == fs[save_path].sheets[TargetIndex(fs[save_path])]

\* The columns the writer may touch.
DataColumns == {4, 8, 15, 21, 24, 26, 43, 45}

\* Merged row k comes from data row i of the shipment / backlog sheet.
FromSource(k, src, i) == df_combined[k].src = src /\ df_combined[k].idx = i

\* The template lacks the target sheet.
TemplateLacksTarget ==
    Template.kind = "xlsx" /\ TargetSheet \notin SheetNames(Template.sheets)

\* C1: no exception reaches the caller: every call ends by returning a pair,
\* (False, message) for a failure raised at any step, a log call included.
C1_NoExceptionEscapes ==
    /\ pc # "raised"
    /\ (pc = "done" /\ exc # "") => result = [ok |-> FALSE, msg |-> exc]

\* C2: no partial success: the call returns (True, None) exactly when the
\* workbook was saved to save_path, and when it returns (False, message) the
\* file at save_path is as it was before the call.
C2_NoPartialSuccess ==
    pc = "done" =>
        /\ result.ok <=> (saved /\ fs[save_path] = wb)
        /\ ~result.ok => fs[save_path] = fs0[save_path]

\* C3: filter correctness: a shipment row is in the merged output iff its
\* region is the target region; a backlog row iff its region is the target
\* region and its organization is neither null nor the empty string; and no
\* other region is ever written to the template.
C3_FilterCorrectness ==
    /\ MergeRan =>
          /\ \A i \in 1..NumDataRows(SourceShip) :
                (\E k \in 1..Len(df_combined) : FromSource(k, "ship", i))
                    <=> SourceShip.rows[i + 1][4].v = Str(TargetRegion)
          /\ \A i \in 1..NumDataRows(SourceDelay) :
                (\E k \in 1..Len(df_combined) : FromSource(k, "delay", i))
                    <=> /\ SourceDelay.rows[i + 1][4].v = Str(TargetRegion)
                        /\ SourceDelay.rows[i + 1][27].v \notin {Null, Str("")}
          /\ \A k \in 1..Len(df_combined) :
                \/ df_combined[k].src = "ship"
                      /\ df_combined[k].idx \in 1..NumDataRows(SourceShip)
                \/ df_combined[k].src = "delay"
                      /\ df_combined[k].idx \in 1..NumDataRows(SourceDelay)
    /\ Succeeded =>
          \A r \in 2..max_row(OutputTarget) :
              OutputTarget.rows[r][4].v \in {Null, Str(TargetRegion)}

\* A backlog row with an empty organization and a shipment row of another
\* region were dropped, and the rest was written.
C3_Witness ==
    /\ Succeeded
    /\ \E i \in 1..NumDataRows(SourceDelay) :
          /\ SourceDelay.rows[i + 1][4].v = Str(TargetRegion)
          /\ SourceDelay.rows[i + 1][27].v = Str("")
    /\ \E i \in 1..NumDataRows(SourceShip) :
          SourceShip.rows[i + 1][4].v = Str("NingboQu")
    /\ Len(df_combined) = 1

\* C4: every backlog row of the merged output has a null signoff date, and
\* so has column 45 of every spreadsheet row written from one.
C4_BacklogSignoffNull ==
    /\ MergeRan =>
          \A k \in 1..Len(df_combined) :
              df_combined[k].src = "delay" => df_combined[k].signoff_date = Null
    /\ Succeeded =>
          \A k \in 1..Len(df_combined) :
              df_combined[k].src = "delay" => OutputTarget.rows[k + 1][45].v = Null

\* A backlog row whose sheet holds a date-time in the shipment sheet's
\* signoff column was written beside a shipment row with a signoff date.
C4_Witness ==
    /\ Succeeded
    /\ \E k \in 1..Len(df_combined) :
          /\ df_combined[k].src = "delay"
          /\ SourceDelay.rows[df_combined[k].idx + 1][29].v.k = "datetime"
    /\ \E k \in 1..Len(df_combined) :
          /\ df_combined[k].src = "ship"
          /\ OutputTarget.rows[k + 1][45].v = Date(20240102)

\* C5: the frame: after a successful run every sheet but the target is as in
\* the template, and so is every cell of the target sheet in row 1 or
\* outside the eight data columns.
C5_Frame ==
    Succeeded =>
        /\ Len(fs[save_path].sheets) = Len(Template.sheets)
        /\ \A i \in 1..Len(Template.sheets) :
              i # TargetIndex(Template) => fs[save_path].sheets[i] = Template.sheets[i]
        /\ OutputTarget.name = TemplateTarget.name
        /\ \A r \in 1..Max(max_row(OutputTarget), max_row(TemplateTarget)) :
              \A c \in Cols :
                  (r = 1 \/ c \notin DataColumns)
                      => CellAt(OutputTarget, r, c) = CellAt(TemplateTarget, r, c)

\* A successful run on a template with stale rows, a formula column and a
\* second sheet, which wrote more rows than the template had.
C5_Witness ==
    /\ Succeeded
    /\ Len(Template.sheets) > 1
    /\ max_row(TemplateTarget) >= 2
    /\ max_row(OutputTarget) > max_row(TemplateTarget)
    /\ OutputTarget.rows[2][46].v.k = "formula"

\* C6: the merged sequence is the kept shipment rows in source order, then
\* the kept backlog rows in source order, and on success merged row k
\* (1-indexed here) is in spreadsheet row k + 1, with no gap.
C6_OrderAndPlacement ==
    /\ MergeRan =>
          /\ \A k, l \in 1..Len(df_combined) :
                k < l =>
                    \/ df_combined[k].src = "ship" /\ df_combined[l].src = "delay"
                    \/ /\ df_combined[k].src = df_combined[l].src
                       /\ df_combined[k].idx < df_combined[l].idx
          /\ \A k \in 1..Len(df_combined) :
                df_combined[k].customer =
                    IF df_combined[k].src = "ship"
                    THEN SourceShip.rows[df_combined[k].idx + 1][8].v
                    ELSE SourceDelay.rows[df_combined[k].idx + 1][6].v
    /\ Succeeded =>
          /\ max_row(OutputTarget) >= Len(df_combined) + 1
          /\ \A k \in 1..Len(df_combined) :
                /\ OutputTarget.rows[k + 1][4].v = df_combined[k].region
                /\ OutputTarget.rows[k + 1][8].v = df_combined[k].customer
                /\ OutputTarget.rows[k + 1][15].v = df_combined[k].item_description
                /\ OutputTarget.rows[k + 1][21].v = df_combined[k].ship_quantity
                /\ OutputTarget.rows[k + 1][24].v = df_combined[k].net_weight
                /\ OutputTarget.rows[k + 1][26].v = df_combined[k].list_price
                /\ OutputTarget.rows[k + 1][43].v = df_combined[k].tax_rate
                /\ OutputTarget.rows[k + 1][45].v = df_combined[k].signoff_date

\* A shipment row that followed a dropped one and a backlog row were kept
\* and written, the backlog row past the template's last row.
C6_Witness ==
    /\ Succeeded
    /\ Len(df_combined) = 2
    /\ df_combined[1].src = "ship" /\ df_combined[1].idx = 2
    /\ df_combined[2].src = "delay"
    /\ max_row(TemplateTarget) < 3
    /\ OutputTarget.rows[3][8].v = Str("D")

\* C7: no stale data: with n merged rows, every data-column cell of rows
\* n + 2 .. max_row is empty and keeps the template's format, and the sheet
\* has no row past max(max_row, n + 1).
C7_NoStaleData ==
    Succeeded =>
        /\ \A r \in (Len(df_combined) + 2)..max_row(TemplateTarget) :
              \A c \in DataColumns :
                  /\ OutputTarget.rows[r][c].v = Null
                  /\ OutputTarget.rows[r][c].fmt = TemplateTarget.rows[r][c].fmt
        /\ max_row(OutputTarget) = Max(max_row(TemplateTarget), Len(df_combined) + 1)

\* A template row past the written ones held stale values and a stale
\* formula in the data columns.
C7_Witness ==
    /\ Succeeded
    /\ Len(df_combined) + 2 <= max_row(TemplateTarget)
    /\ TemplateTarget.rows[max_row(TemplateTarget)][26].v.k = "formula"
    /\ TemplateTarget.rows[max_row(TemplateTarget)][45].fmt = "m/d/yy"

\* C8 as claimed: whenever the template lacks the target sheet the call
\* returns (False, a message naming the sheet), whatever the data workbook
\* holds (stated here for the calls in which no log call raises).
C8_AlwaysNamesMissingSheet ==
    (TemplateLacksTarget /\ DataFile.kind = "xlsx" /\ pc = "done"
            /\ result.msg # "SinkError")
        => result = [ok |-> FALSE, msg |-> MissingSheetError]

\* C8 as amended: when the template lacks the target sheet the call never
\* succeeds and never writes save_path; when the data stage ends with a
\* non-empty merge, the failure of the sheet check is the one reported (or
\* that of the log call before it); otherwise the earlier outcome of the
\* data stage is reported.
C8_MissingSheetReported ==
    TemplateLacksTarget =>
        /\ ~saved /\ fs[save_path] = fs0[save_path]
        /\ pc \notin {"clean", "fill", "save", "finish"}
        /\ pc = "done" =>
              /\ ~result.ok
              /\ df_combined # <<>> => result.msg \in {MissingSheetError, "SinkError"}
              /\ df_combined = <<>> => result.msg # MissingSheetError

\* The sheet check failed and its message was returned.
C8_Witness ==
    /\ TemplateLacksTarget
    /\ pc = "done"
    /\ df_combined # <<>>
    /\ result = [ok |-> FALSE, msg |-> MissingSheetError]

====
